---- MODULE Spec2Model ----
(***************************************************************************)
(* Model of theano/gof/optdb.py: the optimizer databases DB, Query,        *)
(* EquilibriumDB, SequenceDB and ProxyDB.                                  *)
(*                                                                         *)
(* An OrderedSet is a sequence without repetitions.  A DefaultOrderedDict  *)
(* is a function whose DOMAIN is the set of keys present; reading a key    *)
(* that is absent inserts it with an empty OrderedSet.                     *)
(***************************************************************************)
EXTENDS Integers, Sequences, FiniteSets, TLC

VARIABLES
    cls,         \* cls[r]      : the class of registry r (fixed at construction)
    db,          \* db[r]       : r.__db__, key -> OrderedSet of objects
    names,       \* names[r]    : r._names
    name,        \* name[o]     : the attribute o.name of every object
    position,    \* position[r] : r.__position__ (SequenceDB)
    final,       \* final[r]    : r.__final__ (EquilibriumDB)
    cutoff,      \* config.optdb.position_cutoff
    last,        \* the last call made: its arguments and how it ended
    reg          \* reg[r] : the register calls on r that returned (history)

vars == <<cls, db, names, name, position, final, cutoff, last, reg>>

-----------------------------------------------------------------------------
(* Bounds of the model *)

MaxTags == 1          \* tags passed to one register / add_tags / remove_tags call
MaxQuery == 2         \* tags in one query
MaxPos == 1           \* positions range over 0 .. MaxPos

-----------------------------------------------------------------------------
(* The objects of the heap *)

None == "None"
Inf == 1000           \* numpy.inf, the default of optdb.position_cutoff

Passes == {"p1", "p2", "p3"}          \* optimizer objects (leaves)
DBs == {"outer", "inner"}             \* registries; inner may be nested in outer
Proxies == {"proxy"}                  \* a ProxyDB: it has no __db__ and no _names
Junk == {"junk"}                      \* an object that is no DB and no optimizer
Objects == Passes \cup DBs \cup Proxies \cup Junk

\* ProxyDB.db: the registry given to ProxyDB.__init__
ProxyDB_db(self) == "inner"

\* obj.__class__.__name__
ClassName(o) ==
    CASE o = "p1" -> "K1"
      [] o = "p2" -> "K2"
      [] o = "p3" -> "K1"
      [] o = "junk" -> "object"
      [] o = "proxy" -> "ProxyDB"
      [] OTHER -> cls[o]

\* isinstance(obj, (DB, opt.Optimizer, opt.LocalOptimizer))
IsRegistrable(o) == o \in Passes \cup DBs \cup Proxies

\* isinstance(obj, DB)
IsDB(o) == o \in DBs \cup Proxies

-----------------------------------------------------------------------------
(* OrderedSet: a sequence without repetitions *)

Contains(s, x) == \E i \in 1..Len(s) : s[i] = x

Elems(s) == {s[i] : i \in 1..Len(s)}

\* OrderedSet.add: a new element goes last, a present one stays where it is
add(s, x) == IF Contains(s, x) THEN s ELSE Append(s, x)

\* OrderedSet.update: add every element of t, in t's order
RECURSIVE update(_, _)
update(s, t) == IF t = <<>> THEN s ELSE update(add(s, Head(t)), Tail(t))

\* OrderedSet.intersection_update: keep the elements also in t, in s's order
intersection_update(s, t) == SelectSeq(s, LAMBDA x : Contains(t, x))

\* OrderedSet.difference_update: drop the elements in t, keeping s's order
difference_update(s, t) == SelectSeq(s, LAMBDA x : ~Contains(t, x))

\* OrderedSet(iterable): the elements in order of first occurrence
OrderedSet(t) == update(<<>>, t)

-----------------------------------------------------------------------------
(* DefaultOrderedDict(OrderedSet) *)

\* key in d
Has(d, k) == k \in DOMAIN d

\* d[k] = v
SetItem(d, k, v) == [x \in (DOMAIN d) \cup {k} |-> IF x = k THEN v ELSE d[x]]

\* the dictionary after evaluating d[k]: an absent key is inserted with OrderedSet()
Touch(d, k) == IF Has(d, k) THEN d ELSE SetItem(d, k, <<>>)

\* the value of d[k]
GetItem(d, k) == IF Has(d, k) THEN d[k] ELSE <<>>

-----------------------------------------------------------------------------
(* The heap and the outcome of a call *)

Heap == [db |-> db, names |-> names, name |-> name,
         position |-> position, final |-> final]

\* a call that returned value out in heap h
Return(h, out) == [h |-> h, res |-> "ok", out |-> out]

\* a call that raised exception e in heap h
Raise(h, e) == [h |-> h, res |-> e, out |-> <<>>]

\* the exceptions of optdb.py
TypeError == "TypeError"
DuplicateName == "ValueError: existing tag or name"      \* line 58
RegisteredTwice == "ValueError: registered twice"        \* line 71
TagCollision == "ValueError: tag collides with a name"   \* lines 85, 95
AssertionError == "AssertionError"
KeyError == "KeyError"
MoreThanOne == "ValueError: more than one match"         \* line 147
BadTagSyntax == "ValueError: tags must start with +&-"   \* line 135
IndexError == "IndexError"
AttributeError == "AttributeError"

-----------------------------------------------------------------------------
(* class DB *)

\* the loop of add_tags over the remaining tags, obj being the named object
RECURSIVE add_tags_loop(_, _, _, _)
add_tags_loop(h, self, obj, tags) ==
    IF tags = <<>> THEN Return(h, <<>>)
    ELSE LET tag == Head(tags) IN
         IF tag \in h.names[self] THEN Raise(h, TagCollision)
         ELSE add_tags_loop(
                [h EXCEPT !.db[self] = SetItem(@, tag, add(GetItem(@, tag), obj))],
                self, obj, Tail(tags))

\* DB.add_tags(name, *tags)
add_tags(h, self, nm, tags) ==
    LET h0 == [h EXCEPT !.db[self] = Touch(@, nm)]
        bucket == h0.db[self][nm]
    IN  IF Len(bucket) # 1 THEN Raise(h0, AssertionError)
        ELSE add_tags_loop(h0, self, bucket[Len(bucket)], tags)

\* the loop of remove_tags over the remaining tags
RECURSIVE remove_tags_loop(_, _, _, _)
remove_tags_loop(h, self, obj, tags) ==
    IF tags = <<>> THEN Return(h, <<>>)
    ELSE LET tag == Head(tags)
             h1 == [h EXCEPT !.db[self] = Touch(@, tag)]
         IN
         IF tag \in h.names[self] THEN Raise(h, TagCollision)
         ELSE IF ~Contains(h1.db[self][tag], obj) THEN Raise(h1, KeyError)
         ELSE remove_tags_loop(
                [h1 EXCEPT !.db[self][tag] = difference_update(@, <<obj>>)],
                self, obj, Tail(tags))

\* DB.remove_tags(name, *tags)
remove_tags(h, self, nm, tags) ==
    LET h0 == [h EXCEPT !.db[self] = Touch(@, nm)]
        bucket == h0.db[self][nm]
    IN  IF Len(bucket) # 1 THEN Raise(h0, AssertionError)
        ELSE remove_tags_loop(h0, self, bucket[Len(bucket)], tags)

\* the keyword arguments of register: none, use_db_name_as_tag=False,
\* use_db_name_as_tag=True
NoKw == "none"
KwFalse == "use_db_name_as_tag=False"
KwTrue == "use_db_name_as_tag=True"
Kwargs == {NoKw, KwFalse, KwTrue}

\* name in self._names: the names only, not the tags
name_in_names(h, self, nm) == nm \in h.names[self]

\* name in self.__db__
name_in_db(h, self, nm) == Has(h.db[self], nm)

\* DB.register(name, obj, *tags, **kwargs)
DB_register(h, self, nm, obj, tags, kwargs) ==
    IF ~IsRegistrable(obj) THEN Raise(h, TypeError)
    ELSE IF name_in_db(h, self, nm) THEN Raise(h, DuplicateName)
    ELSE IF kwargs = KwTrue THEN Raise(h, AssertionError)
    ELSE
      LET tags1 == IF kwargs = NoKw /\ h.name[self] # None
                   THEN Append(tags, h.name[self]) ELSE tags
          h1 == [h EXCEPT !.name[obj] = nm]
      IN  IF name_in_db(h1, self, h1.name[obj]) THEN Raise(h1, RegisteredTwice)
          ELSE
            LET h2 == [h1 EXCEPT !.db[self] = SetItem(@, nm, <<obj>>),
                                 !.names[self] = @ \cup {nm}]
                k == ClassName(obj)
                h3 == [h2 EXCEPT !.db[self] =
                                    SetItem(@, k, add(GetItem(@, k), obj))]
            IN  add_tags(h3, self, nm, tags1)

\* DB.__getitem__ raising "more than one match" from one match on
DB_getitem_from_one(h, self, nm) ==
    LET h0 == [h EXCEPT !.db[self] = Touch(@, nm)]
        variables == h0.db[self][nm]
    IN  IF Len(variables) = 0 THEN Raise(h0, KeyError)
        ELSE IF Len(variables) >= 1 THEN Raise(h0, MoreThanOne)
        ELSE Return(h0, <<variables[1]>>)

\* DB.__getitem__(name)
DB_getitem(h, self, nm) ==
    LET h0 == [h EXCEPT !.db[self] = Touch(@, nm)]
        variables == h0.db[self][nm]
    IN  IF Len(variables) = 0 THEN Raise(h0, KeyError)
        ELSE IF Len(variables) > 1 THEN Raise(h0, MoreThanOne)
        ELSE Return(h0, <<variables[1]>>)

-----------------------------------------------------------------------------
(* class Query *)

\* an optional value: None is <<>>, a value x is <<x>>
Nothing == <<>>
Some(x) == <<x>>

\* the empty subquery mapping {}
NoSubquery == [x \in {} |-> Nothing]

\* Query.__init__(include, require, exclude, subquery, position_cutoff)
Query(include, require, exclude, subquery, position_cutoff) ==
    [include |-> OrderedSet(include),
     require |-> OrderedSet(require),
     exclude |-> OrderedSet(exclude),
     subquery |-> subquery,
     position_cutoff |-> position_cutoff]

-----------------------------------------------------------------------------
(* Resolution *)

\* an element of a query's result: a registered object, or the replacement
\* built from the result of a nested registry
Plain(o) == [id |-> o, repl |-> Nothing]
Replacement(o, value) == [id |-> o, repl |-> Some(value)]

\* the attribute name of an element of a result
NameOf(h, e) == IF e.repl = Nothing THEN h.name[e.id] ELSE e.repl[1].name

\* what a query returns: the OrderedSet of DB.query, the EquilibriumOptimizer
\* of EquilibriumDB.query, the SeqOptimizer of SequenceDB.query
Value(kind, opts, final_optimizers) ==
    [kind |-> kind, name |-> None, opts |-> opts,
     final_optimizers |-> final_optimizers]

\* the positional and keyword arguments of a call of query
QueryArgs(q) ==
    [tags |-> <<>>, position_cutoff |-> Nothing, query |-> Some(q),
     kwtags |-> NoSubquery]
TagArgs(tags, kwtags, position_cutoff) ==
    [tags |-> tags, position_cutoff |-> position_cutoff, query |-> Nothing,
     kwtags |-> kwtags]

\* a tag string of query: its first character and the rest, tag[1:]
Tag(pre, rest) == [pre |-> pre, rest |-> rest]

\* [tag[1:] for tag in tags if tag.startswith(pre)]
RECURSIVE Prefixed(_, _)
Prefixed(tags, pre) ==
    IF tags = <<>> THEN <<>>
    ELSE IF Head(tags).pre = pre
         THEN <<Head(tags).rest>> \o Prefixed(Tail(tags), pre)
         ELSE Prefixed(Tail(tags), pre)

\* the dictionary after reading d[tag] for every tag of the sequence
RECURSIVE TouchAll(_, _)
TouchAll(d, tags) ==
    IF tags = <<>> THEN d ELSE TouchAll(Touch(d, Head(tags)), Tail(tags))

\* for tag in q.include: variables.update(self.__db__[tag])
RECURSIVE include_loop(_, _, _)
include_loop(d, variables, tags) ==
    IF tags = <<>> THEN variables
    ELSE include_loop(d, update(variables, GetItem(d, Head(tags))), Tail(tags))

\* the require loop taking the union instead of the intersection
require_loop_union(d, variables, tags) == include_loop(d, variables, tags)

\* for tag in q.require: variables.intersection_update(self.__db__[tag])
RECURSIVE require_loop(_, _, _)
require_loop(d, variables, tags) ==
    IF tags = <<>> THEN variables
    ELSE require_loop(d, intersection_update(variables, GetItem(d, Head(tags))),
                      Tail(tags))

\* for tag in q.exclude: variables.difference_update(self.__db__[tag])
RECURSIVE exclude_loop(_, _, _)
exclude_loop(d, variables, tags) ==
    IF tags = <<>> THEN variables
    ELSE exclude_loop(d, difference_update(variables, GetItem(d, Head(tags))),
                      Tail(tags))

\* [Plain(o) for o in s]
AsElements(s) == [i \in 1..Len(s) |-> Plain(s[i])]

\* Python's order of the strings used as names
StrOrder == <<"DB", "EquilibriumDB", "K1", "K2", "None", "SequenceDB",
              "a", "b", "c">>
StrRank(str) == CHOOSE i \in 1..Len(StrOrder) : StrOrder[i] = str

\* x < c for a number x and a cutoff c that may be numpy.inf
Less(x, c) == x < c

\* list.sort(key=...): the stable sort of s by the keys key[e]
RECURSIVE sort_insert(_, _, _)
sort_insert(sorted, e, key) ==
    IF sorted = <<>> THEN <<e>>
    ELSE IF key[e] < key[Head(sorted)] THEN <<e>> \o sorted
    ELSE <<Head(sorted)>> \o sort_insert(Tail(sorted), e, key)

RECURSIVE sort_from(_, _, _)
sort_from(sorted, rest, key) ==
    IF rest = <<>> THEN sorted
    ELSE sort_from(sort_insert(sorted, Head(rest), key), Tail(rest), key)

sort(s, key) == sort_from(<<>>, s, key)

\* the override taken whatever the mapping holds: the enclosing query
subquery_get_enclosing(q, nm) == Some(q)

\* q.subquery.get(nm, q)
subquery_get(q, nm) ==
    IF Has(q.subquery, nm) THEN q.subquery[nm] ELSE Some(q)

\* the assignment the other way round: obj.name = replacement.name
name_registry(h, obj, value) ==
    [h |-> [h EXCEPT !.name[obj] = value.name], value |-> value]

\* replacement.name = obj.name
name_replacement(h, obj, value) ==
    [h |-> h, value |-> [value EXCEPT !.name = h.name[obj]]]

RECURSIVE query(_, _, _)
RECURSIVE expand_loop(_, _, _, _, _, _)

\* the loop of __query__ over variables from index i on: remove and add collect
\* the nested registries and their replacements
expand_loop(h, q, variables, i, remove, added) ==
    IF i > Len(variables)
    THEN Return(h, update(difference_update(variables, remove), added))
    ELSE
      LET obj == variables[i].id IN
      IF ~IsDB(obj) THEN expand_loop(h, q, variables, i + 1, remove, added)
      ELSE
        LET sq == subquery_get(q, h.name[obj]) IN
        IF sq = Nothing THEN expand_loop(h, q, variables, i + 1, remove, added)
        ELSE
          LET o == query(h, obj, QueryArgs(sq[1])) IN
          IF o.res # "ok" THEN Raise(o.h, o.res)
          ELSE
            LET named == name_replacement(o.h, obj, o.out[1])
                replacement == Replacement(obj, named.value)
            IN  expand_loop(named.h, q, variables, i + 1,
                            add(remove, variables[i]), add(added, replacement))

\* DB.__query__(q)
DB___query__(h, self, q) ==
    LET d == TouchAll(TouchAll(TouchAll(h.db[self], q.include), q.require),
                      q.exclude)
        h1 == [h EXCEPT !.db[self] = d]
        included == include_loop(d, <<>>, q.include)
        required == require_loop(d, included, q.require)
        variables == exclude_loop(d, required, q.exclude)
    IN  expand_loop(h1, q, AsElements(variables), 1, <<>>, <<>>)

\* DB.query(*tags, **kwtags)
DB_query(h, self, args) ==
    IF args.query # Nothing
    THEN IF args.tags # <<>> \/ DOMAIN args.kwtags # {}
            \/ args.position_cutoff # Nothing
         THEN Raise(h, TypeError)
         ELSE LET o == DB___query__(h, self, args.query[1]) IN
              IF o.res # "ok" THEN o
              ELSE Return(o.h, <<Value("OrderedSet", o.out, Nothing)>>)
    ELSE
      LET include == Prefixed(args.tags, "+")
          require == Prefixed(args.tags, "&")
          exclude == Prefixed(args.tags, "-")
      IN  IF Len(include) + Len(require) + Len(exclude) < Len(args.tags)
          THEN Raise(h, BadTagSyntax)
          ELSE LET o == DB___query__(h, self,
                          Query(include, require, exclude, args.kwtags, Nothing))
               IN
               IF o.res # "ok" THEN o
               ELSE Return(o.h, <<Value("OrderedSet", o.out, Nothing)>>)

-----------------------------------------------------------------------------
(* class EquilibriumDB *)

\* self.__final__.get(key, False)
final_get(h, self, key) ==
    IF key \in DOMAIN h.final[self] THEN h.final[self][key] ELSE FALSE

\* EquilibriumDB.register(name, obj, *tags, final_opt=..., **kwtags)
EquilibriumDB_register(h, self, nm, obj, tags, kwargs, final_opt) ==
    LET o == DB_register(h, self, nm, obj, tags, kwargs) IN
    IF o.res # "ok" THEN o
    ELSE Return([o.h EXCEPT !.final[self] = SetItem(@, nm, final_opt)], <<>>)

\* EquilibriumDB.query(*tags, **kwtags)
EquilibriumDB_query(h, self, args) ==
    LET o == DB_query(h, self, args) IN
    IF o.res # "ok" THEN o
    ELSE
      LET opts_ == o.out[1].opts
          final_opts == SelectSeq(opts_,
                          LAMBDA e : final_get(o.h, self, NameOf(o.h, e)))
          opts == SelectSeq(opts_, LAMBDA e : ~Contains(final_opts, e))
      IN  Return(o.h, <<Value("EquilibriumOptimizer", opts,
                              IF Len(final_opts) = 0 THEN Nothing
                              ELSE Some(final_opts))>>)

-----------------------------------------------------------------------------
(* class SequenceDB *)

\* SequenceDB.register(name, obj, position, *tags); it takes no keyword
SequenceDB_register(h, self, nm, obj, pos, tags, kwargs) ==
    IF kwargs # NoKw THEN Raise(h, TypeError)
    ELSE
      LET o == DB_register(h, self, nm, obj, tags, NoKw) IN
      IF o.res # "ok" THEN o
      ELSE Return([o.h EXCEPT !.position[self] = SetItem(@, nm, pos)], <<>>)

\* the two sorts in the other order: by position first, then by name
sort_opts_position_first(h, self, opts) ==
    LET bypos == sort(opts, [e \in Elems(opts) |->
                                h.position[self][NameOf(h, e)]])
    IN  sort(bypos, [e \in Elems(opts) |-> StrRank(NameOf(h, e))])

\* opts.sort(key=name); opts.sort(key=position)
sort_opts(h, self, opts) ==
    LET byname == sort(opts, [e \in Elems(opts) |-> StrRank(NameOf(h, e))])
    IN  sort(byname, [e \in Elems(opts) |-> h.position[self][NameOf(h, e)]])

\* SequenceDB.query(*tags, **kwtags), config being optdb.position_cutoff
SequenceDB_query(h, self, args, config) ==
    LET o == DB_query(h, self, args) IN
    IF o.res # "ok" THEN o
    ELSE
      LET default == IF args.position_cutoff # Nothing
                     THEN args.position_cutoff[1] ELSE config
          position_cutoff ==
              IF args.query # Nothing
                 /\ args.query[1].position_cutoff # Nothing
                 /\ args.query[1].position_cutoff[1] # 0
              THEN args.query[1].position_cutoff[1] ELSE default
          all == o.out[1].opts
          pos == o.h.position[self]
      IN
      IF \E i \in 1..Len(all) : NameOf(o.h, all[i]) \notin DOMAIN pos
      THEN Raise(o.h, KeyError)
      ELSE
        LET opts == SelectSeq(all,
                      LAMBDA e : Less(pos[NameOf(o.h, e)], position_cutoff))
        IN  IF args.query = Nothing /\ args.tags = <<>>
            THEN Raise(o.h, IndexError)
            ELSE Return(o.h, <<Value("SeqOptimizer",
                                    sort_opts(o.h, self, opts), Nothing)>>)

-----------------------------------------------------------------------------
(* class ProxyDB *)

\* the forward calling DB.query on the wrapped registry, not its own query
ProxyDB_query_base(h, self, args) == DB_query(h, ProxyDB_db(self), args)

\* ProxyDB.query(*tags, **kwtags)
ProxyDB_query(h, self, args) == query(h, ProxyDB_db(self), args)

-----------------------------------------------------------------------------
(* Dispatch on the class of the registry *)

\* self.query(*tags, **kwtags)
query(h, self, args) ==
    IF self \in Proxies THEN ProxyDB_query(h, self, args)
    ELSE CASE cls[self] = "EquilibriumDB" -> EquilibriumDB_query(h, self, args)
           [] cls[self] = "SequenceDB" ->
                 SequenceDB_query(h, self, args, cutoff)
           [] OTHER -> DB_query(h, self, args)

\* self.register(name, obj, ...): position is read by a SequenceDB, final_opt
\* by an EquilibriumDB
register(h, self, nm, obj, tags, kwargs, pos, final_opt) ==
    IF self \in Proxies
    THEN \* DB.register on an object without __db__ (line 57)
         IF ~IsRegistrable(obj) THEN Raise(h, TypeError)
         ELSE Raise(h, AttributeError)
    ELSE CASE cls[self] = "EquilibriumDB" ->
                 EquilibriumDB_register(h, self, nm, obj, tags, kwargs,
                                        final_opt)
           [] cls[self] = "SequenceDB" ->
                 SequenceDB_register(h, self, nm, obj, pos, tags, kwargs)
           [] OTHER -> DB_register(h, self, nm, obj, tags, kwargs)

-----------------------------------------------------------------------------
(* The calls a client makes *)

\* the record of a call: what was called with what, and how it ended
Call(op, self, nm, obj, tags, kwargs, pos, final_opt, args, o) ==
    [op |-> op, self |-> self, nm |-> nm, obj |-> obj, tags |-> tags,
     kwargs |-> kwargs, pos |-> pos, final_opt |-> final_opt, args |-> args,
     res |-> o.res, out |-> o.out]

NoArgs == TagArgs(<<>>, NoSubquery, Nothing)
NoOutcome == [res |-> "ok", out |-> <<>>]

\* the heap after a call that ended as o
Commit(o) ==
    /\ db' = o.h.db
    /\ names' = o.h.names
    /\ name' = o.h.name
    /\ position' = o.h.position
    /\ final' = o.h.final
    /\ UNCHANGED <<cls, cutoff>>

\* a register call that returned
Registration(nm, obj, pos, final_opt) ==
    [nm |-> nm, obj |-> obj, pos |-> pos, final_opt |-> final_opt]

\* self.register(nm, obj, *tags, **kwargs)
Register(self, nm, obj, tags, kwargs, pos, final_opt) ==
    LET o == register(Heap, self, nm, obj, tags, kwargs, pos, final_opt) IN
    /\ Commit(o)
    /\ last' = Call("register", self, nm, obj, tags, kwargs, pos, final_opt,
                    NoArgs, o)
    /\ reg' = IF o.res = "ok"
              THEN [reg EXCEPT ![self] = @ \cup
                                  {Registration(nm, obj, pos, final_opt)}]
              ELSE reg

\* self.add_tags(nm, *tags)
AddTags(self, nm, tags) ==
    LET o == add_tags(Heap, self, nm, tags) IN
    /\ Commit(o)
    /\ last' = Call("add_tags", self, nm, None, tags, NoKw, 0, FALSE, NoArgs, o)
    /\ UNCHANGED reg

\* self.remove_tags(nm, *tags)
RemoveTags(self, nm, tags) ==
    LET o == remove_tags(Heap, self, nm, tags) IN
    /\ Commit(o)
    /\ last' = Call("remove_tags", self, nm, None, tags, NoKw, 0, FALSE,
                    NoArgs, o)
    /\ UNCHANGED reg

\* self[nm]
Lookup(self, nm) ==
    LET o == DB_getitem(Heap, self, nm) IN
    /\ Commit(o)
    /\ last' = Call("lookup", self, nm, None, <<>>, NoKw, 0, FALSE, NoArgs, o)
    /\ UNCHANGED reg

\* self.query(*tags, **kwtags)
QueryCall(self, args) ==
    LET o == query(Heap, self, args) IN
    /\ Commit(o)
    /\ last' = Call("query", self, None, None, <<>>, NoKw, 0, FALSE, args, o)
    /\ UNCHANGED reg

\* config.optdb.position_cutoff = c
SetCutoff(c) ==
    /\ cutoff # c
    /\ cutoff' = c
    /\ last' = Call("config", None, None, None, <<>>, NoKw, 0, FALSE, NoArgs,
                    NoOutcome)
    /\ UNCHANGED <<cls, db, names, name, position, final, reg>>

-----------------------------------------------------------------------------
(* The inputs of the calls *)

\* the sequences over S of length at most n
RECURSIVE SeqsUpTo(_, _)
SeqsUpTo(S, n) ==
    IF n = 0 THEN {<<>>}
    ELSE LET shorter == SeqsUpTo(S, n - 1) IN
         shorter \cup {Append(t, x) : t \in shorter, x \in S}

Positions == 0..MaxPos

\* the tag strings passed to query: "+x", "&x", "-x" and the unprefixed "x"
TagArguments(S) == {Tag(pre, rest) : pre \in {"+", "&", "-", "x"}, rest \in S}

\* the Query objects over the tags S with at most n tags
QueriesOver(S, n, cutoffs) ==
    {Query(i, r, e, NoSubquery, c) :
        i \in SeqsUpTo(S, n),
        r \in SeqsUpTo(S, 1),
        e \in SeqsUpTo(S, 1),
        c \in cutoffs}

-----------------------------------------------------------------------------
(* The state after construction: DB.__init__ *)

InitHeap ==
    /\ db = [r \in DBs |-> [x \in {} |-> <<>>]]
    /\ names = [r \in DBs |-> {}]
    /\ name = [o \in Objects |-> None]
    /\ position = [r \in DBs |-> [x \in {} |-> 0]]
    /\ final = [r \in DBs |-> [x \in {} |-> FALSE]]
    /\ cutoff = Inf
    /\ last = Call("init", None, None, None, <<>>, NoKw, 0, FALSE, NoArgs,
                   NoOutcome)
    /\ reg = [r \in DBs |-> {}]

-----------------------------------------------------------------------------
(* Spec: a registry of class DB, inner, which its client may register in  *)
(* another one, outer, before or after filling it                          *)

NameStrings == {"a", "K2"}
TagStrings == {"a"}
QueryStrings == {"a", "K1"}

TagLists == SeqsUpTo(TagStrings, MaxTags)

Init ==
    /\ cls = [r \in DBs |-> "DB"]
    /\ InitHeap

\* outer.register(nm, inner): from now on inner has the name nm
DoNest ==
    \E nm \in NameStrings :
        Register("outer", nm, "inner", <<>>, NoKw, 0, FALSE)

DoRegister ==
    \E nm \in NameStrings, obj \in {"p1", "p2", "junk"}, tags \in TagLists,
       kwargs \in Kwargs :
        Register("inner", nm, obj, tags, kwargs, 0, FALSE)

DoAddTags ==
    \E nm \in NameStrings, tags \in TagLists :
        AddTags("inner", nm, tags)

DoRemoveTags ==
    \E nm \in NameStrings, tags \in TagLists :
        RemoveTags("inner", nm, tags)

DoLookup ==
    \E nm \in NameStrings \cup TagStrings :
        Lookup("inner", nm)

DoQuery ==
    \E i \in SeqsUpTo(QueryStrings, 1), e \in SeqsUpTo({"K1"}, 1) :
        QueryCall("inner", QueryArgs(Query(i, <<>>, e, NoSubquery, Nothing)))

DoQueryTags ==
    \E tags \in SeqsUpTo(TagArguments(QueryStrings), 1) :
        QueryCall("inner", TagArgs(tags, NoSubquery, Nothing))

Next ==
    \/ DoNest
    \/ DoRegister
    \/ DoAddTags
    \/ DoRemoveTags
    \/ DoLookup
    \/ DoQuery
    \/ DoQueryTags

Spec == Init /\ [][Next]_vars

-----------------------------------------------------------------------------
(* Registration, names and tags *)

\* C1: every registered name maps in __db__ to exactly one object, the one
\* that was registered under that name.
C1_NameHoldsItsObject ==
    \A r \in DBs : \A n \in names[r] :
        /\ Len(GetItem(db[r], n)) = 1
        /\ \A g \in reg[r] : g.nm = n => db[r][n] = <<g.obj>>

\* C2: registering an object that a registry already holds under another
\* name fails, and the object keeps the name of its first registration.
C2_SecondNameRefused ==
    [][(/\ last'.op = "register"
        /\ \E g \in reg[last'.self] : g.obj = last'.obj /\ g.nm # last'.nm)
       => (last'.res # "ok" /\ name'[last'.obj] = name[last'.obj])]_vars

\* C3: register(n, p, ...) of a registrable p under a string n that is a
\* registered name, or a tag holding an object, raises the duplicate-name
\* error and changes neither __db__, nor _names, nor p.name.
C3_DuplicateNameRefused ==
    [][(/\ last'.op = "register"
        /\ IsRegistrable(last'.obj)
        /\ \/ last'.nm \in names[last'.self]
           \/ Len(GetItem(db[last'.self], last'.nm)) >= 1)
       => (/\ last'.res = DuplicateName
           /\ db' = db /\ names' = names /\ name' = name)]_vars

C3_Witness ==
    /\ last.op = "register"
    /\ last.res = DuplicateName
    /\ last.nm \notin names[last.self]
    /\ Len(GetItem(db[last.self], last.nm)) >= 1

\* C4: a register(n, ...) that follows a query or a lookup does not raise the
\* duplicate-name error when no object is under n.
C4_EmptyKeyStaysFree ==
    [][(/\ last.op \in {"query", "lookup"}
        /\ last'.op = "register"
        /\ Len(GetItem(db[last'.self], last'.nm)) = 0)
       => last'.res # DuplicateName]_vars

\* C5: right after a register(n, p, ...) that returned, self[n] returns p.
C5_LookupAfterRegister ==
    (last.op = "register" /\ last.res = "ok")
    => LET o == DB_getitem(Heap, last.self, last.nm) IN
       o.res = "ok" /\ o.out = <<last.obj>>

C5_Witness ==
    /\ last.op = "register"
    /\ last.res = "ok"
    /\ last.self = "inner"
    /\ name["inner"] # None
    /\ last.tags # <<>>
    /\ last.kwargs = NoKw

\* C6: add_tags(n, t) and remove_tags(n, t), n a registered name, with a
\* tag t that is a registered name raise the tag/name-collision error and
\* leave the bucket of t as it was.
C6_NameAsTagRefused ==
    [][(/\ last'.op \in {"add_tags", "remove_tags"}
        /\ last'.nm \in names[last'.self]
        /\ Len(last'.tags) = 1
        /\ last'.tags[1] \in names[last'.self])
       => (/\ last'.res = TagCollision
           /\ GetItem(db'[last'.self], last'.tags[1])
                = GetItem(db[last'.self], last'.tags[1]))]_vars

-----------------------------------------------------------------------------
(* SpecQuery: a registry of class DB holding optimizers only, and the     *)
(* queries over its tags                                                   *)

QueryNames == {"a", "b"}
QueryTagLists == SeqsUpTo({"t"}, MaxTags)
QueryTags == {"t", "K1", "a"}

QRegister ==
    \E nm \in QueryNames, obj \in {"p1", "p2"}, tags \in QueryTagLists :
        Register("inner", nm, obj, tags, NoKw, 0, FALSE)

QAddTags ==
    \E nm \in QueryNames, tags \in QueryTagLists :
        AddTags("inner", nm, tags)

QRemoveTags ==
    \E nm \in QueryNames, tags \in QueryTagLists :
        RemoveTags("inner", nm, tags)

QQuery ==
    \E q \in QueriesOver(QueryTags, MaxQuery, {Nothing}) :
        QueryCall("inner", QueryArgs(q))

QQueryTags ==
    \E tags \in SeqsUpTo(TagArguments({"t", "K1"}), 2) :
        QueryCall("inner", TagArgs(tags, NoSubquery, Nothing))

NextQuery ==
    \/ QRegister
    \/ QAddTags
    \/ QRemoveTags
    \/ QQuery
    \/ QQueryTags

SpecQuery == Init /\ [][NextQuery]_vars

-----------------------------------------------------------------------------
(* SpecSeq: a registry of class SequenceDB *)

\* the names under which the optimizers are registered: p1 has two
SeqNamed == {<<"b", "p1">>, <<"a", "p2">>, <<"c", "p3">>, <<"a", "p1">>}
SeqTagLists == {<<>>, <<"a">>}

\* the cutoffs of a query: negative, zero and positive ones
SeqCutoffs == {-1, 0, MaxPos}

\* the Query objects passed to a SequenceDB
SeqQueries ==
    {Query(i, <<>>, <<>>, NoSubquery, c) :
        i \in {<<"K1">>, <<"K2", "K1">>},
        c \in {Nothing} \cup {Some(x) : x \in SeqCutoffs}}

InitSeq ==
    /\ cls = [r \in DBs |-> IF r = "inner" THEN "SequenceDB" ELSE "DB"]
    /\ InitHeap

SRegister ==
    \E no \in SeqNamed, pos \in Positions, tags \in SeqTagLists,
       kwargs \in {NoKw, KwFalse} :
        /\ kwargs = KwFalse => (no[1] = "a" /\ pos = 0 /\ tags = <<>>)
        /\ Register("inner", no[1], no[2], tags, kwargs, pos, FALSE)

SQuery ==
    \E q \in SeqQueries :
        QueryCall("inner", QueryArgs(q))

SQueryTags ==
    \E tags \in SeqsUpTo(TagArguments({"K1"}), 1),
       c \in {Nothing} \cup {Some(x) : x \in {0, MaxPos}} :
        QueryCall("inner", TagArgs(tags, NoSubquery, c))

SConfig ==
    \E c \in {Inf, MaxPos} : SetCutoff(c)

NextSeq ==
    \/ SRegister
    \/ SQuery
    \/ SQueryTags
    \/ SConfig

SpecSeq == InitSeq /\ [][NextSeq]_vars

-----------------------------------------------------------------------------
(* SpecEq: a registry of class EquilibriumDB *)

EqTagLists == {<<>>, <<"a">>}
EqQueryTags == {"K1", "K2"}

InitEq ==
    /\ cls = [r \in DBs |-> IF r = "inner" THEN "EquilibriumDB" ELSE "DB"]
    /\ InitHeap

ERegister ==
    \E no \in SeqNamed, tags \in EqTagLists, final_opt \in BOOLEAN,
       kwargs \in Kwargs :
        /\ kwargs # NoKw => (no[1] = "a" /\ tags = <<>>)
        /\ Register("inner", no[1], no[2], tags, kwargs, 0, final_opt)

EQuery ==
    \E q \in QueriesOver(EqQueryTags, MaxQuery, {Nothing}) :
        QueryCall("inner", QueryArgs(q))

EQueryTags ==
    \E tags \in SeqsUpTo(TagArguments({"a"}), 1) :
        QueryCall("inner", TagArgs(tags, NoSubquery, Nothing))

NextEq ==
    \/ ERegister
    \/ EQuery
    \/ EQueryTags

SpecEq == InitEq /\ [][NextEq]_vars

\* the include, require and exclude tags of the last query
LastInclude ==
    IF last.args.query # Nothing THEN Elems(last.args.query[1].include)
    ELSE {t.rest : t \in {u \in Elems(last.args.tags) : u.pre = "+"}}
LastRequire ==
    IF last.args.query # Nothing THEN Elems(last.args.query[1].require)
    ELSE {t.rest : t \in {u \in Elems(last.args.tags) : u.pre = "&"}}
LastExclude ==
    IF last.args.query # Nothing THEN Elems(last.args.query[1].exclude)
    ELSE {t.rest : t \in {u \in Elems(last.args.tags) : u.pre = "-"}}

\* the objects in the bucket of tag t of registry r
Bucket(r, t) == Elems(GetItem(db[r], t))

\* registry r holds optimizers only, no nested registry
OnlyLeaves(r) == \A t \in DOMAIN db[r] : Bucket(r, t) \subseteq Passes

\* C7: on a registry of leaf passes, a query returns exactly the passes that
\* are under at least one include tag, under every require tag and under no
\* exclude tag, each of them once.
C7_ResolveIsSetAlgebra ==
    (last.op = "query" /\ last.res = "ok" /\ OnlyLeaves(last.self))
    => LET opts == last.out[1].opts IN
       /\ \A i \in 1..Len(opts) : opts[i].repl = Nothing
       /\ \A i, j \in 1..Len(opts) : opts[i] = opts[j] => i = j
       /\ {opts[i].id : i \in 1..Len(opts)}
            = {p \in Passes :
                 /\ \E t \in LastInclude : p \in Bucket(last.self, t)
                 /\ \A t \in LastRequire : p \in Bucket(last.self, t)
                 /\ \A t \in LastExclude : p \notin Bucket(last.self, t)}

C7_Witness ==
    /\ last.op = "query"
    /\ last.res = "ok"
    /\ Cardinality(LastInclude) = 2
    /\ LastRequire # {}
    /\ LastExclude # {}
    /\ \E t \in LastInclude : Cardinality(Bucket(last.self, t)) = 2
    /\ \E t \in LastExclude : Bucket(last.self, t) # {}
    /\ Len(last.out[1].opts) = 1

-----------------------------------------------------------------------------
(* Sequence registries *)

\* the recorded position of element e of a result of registry r
PositionOf(r, e) == position[r][NameOf(Heap, e)]

\* what the base query of the last call resolves to
LastResolved == DB_query(Heap, last.self, last.args).out[1].opts

\* C8: the optimizers a SequenceDB query returns are in ascending order of
\* position, those of equal position in ascending order of name.
C8_SortedByPositionThenName ==
    (last.op = "query" /\ last.res = "ok" /\ cls[last.self] = "SequenceDB")
    => LET opts == last.out[1].opts IN
       \A i, j \in 1..Len(opts) :
          i < j =>
            \/ PositionOf(last.self, opts[i]) < PositionOf(last.self, opts[j])
            \/ /\ PositionOf(last.self, opts[i]) = PositionOf(last.self, opts[j])
               /\ StrRank(NameOf(Heap, opts[i])) < StrRank(NameOf(Heap, opts[j]))

C8_Witness ==
    /\ last.op = "query"
    /\ last.res = "ok"
    /\ cls[last.self] = "SequenceDB"
    /\ LET opts == last.out[1].opts IN
       /\ Len(opts) = 3
       /\ PositionOf(last.self, opts[1]) = PositionOf(last.self, opts[2])
       /\ PositionOf(last.self, opts[2]) < PositionOf(last.self, opts[3])
       /\ LastResolved = <<opts[3], opts[2], opts[1]>>

\* C9: a SequenceDB query with a Query whose position_cutoff is a number c
\* returns exactly the resolved optimizers of position less than c.
C9_ExplicitCutoffApplies ==
    (/\ last.op = "query" /\ last.res = "ok"
     /\ cls[last.self] = "SequenceDB"
     /\ last.args.query # Nothing
     /\ last.args.query[1].position_cutoff # Nothing)
    => Elems(last.out[1].opts)
         = {e \in Elems(LastResolved) :
              PositionOf(last.self, e) < last.args.query[1].position_cutoff[1]}

-----------------------------------------------------------------------------
(* Equilibrium registries *)

\* object o was registered in r with final_opt = flag by a call that returned
RegisteredWith(r, o, flag) ==
    \E g \in reg[r] : g.obj = o /\ g.final_opt = flag

\* C10: an EquilibriumDB query splits the resolved optimizers, in resolution
\* order, into the final ones and the ordinary ones: an optimizer registered
\* with final_opt=True is final and not ordinary, one never registered with
\* it is ordinary, and the final group is None when it is empty.
C10_FinalPartition ==
    (last.op = "query" /\ last.res = "ok" /\ cls[last.self] = "EquilibriumDB")
    => LET opts == last.out[1].opts
           fin == IF last.out[1].final_optimizers = Nothing THEN <<>>
                  ELSE last.out[1].final_optimizers[1]
       IN
       /\ Elems(opts) \cup Elems(fin) = Elems(LastResolved)
       /\ Elems(opts) \cap Elems(fin) = {}
       /\ opts = SelectSeq(LastResolved, LAMBDA e : e \in Elems(opts))
       /\ fin = SelectSeq(LastResolved, LAMBDA e : e \in Elems(fin))
       /\ last.out[1].final_optimizers # Some(<<>>)
       /\ \A e \in Elems(LastResolved) :
            /\ RegisteredWith(last.self, e.id, TRUE)
                 => (e \in Elems(fin) /\ e \notin Elems(opts))
            /\ ~RegisteredWith(last.self, e.id, TRUE) => e \in Elems(opts)

-----------------------------------------------------------------------------
(* Automatic tags *)

\* C11: a pass registered without suppression in a registry that has a name
\* is in the bucket of the registry's name, and a registered pass is in the
\* bucket of its class name; this holds when register returns, and for the
\* pass registered by the previous call when the registry then gets its name.
C11_TaggedWithRegistryAndKind ==
    [][/\ (last'.op = "register" /\ last'.res = "ok")
            => /\ Contains(GetItem(db'[last'.self], ClassName(last'.obj)),
                           last'.obj)
               /\ (last'.kwargs # KwFalse /\ name[last'.self] # None)
                    => Contains(GetItem(db'[last'.self], name[last'.self]),
                                last'.obj)
       /\ (/\ last'.op = "register" /\ last'.res = "ok"
           /\ last'.obj \in DBs
           /\ last.op = "register" /\ last.res = "ok"
           /\ last.self = last'.obj
           /\ last.kwargs # KwFalse)
            => Contains(GetItem(db'[last'.obj], name'[last'.obj]), last.obj)
      ]_vars

-----------------------------------------------------------------------------
(* SpecNest: an EquilibriumDB, inner, registered in a DB, outer, under the *)
(* name "sub", queried through outer and through a ProxyDB wrapping it     *)

NestNamed == {<<"a", "p1">>, <<"b", "p2">>}
NestTagLists == {<<>>, <<"t">>}
NestIncludes == {<<"t">>, <<"sub">>, <<"sub", "t">>}

\* the Query a subquery mapping gives for the nested registry
NestOverride == Query(<<"K2">>, <<>>, <<>>, NoSubquery, Nothing)

\* the subquery mappings: {}, {"sub": None}, {"sub": NestOverride}
NestSubqueries ==
    {NoSubquery} \cup {[x \in {"sub"} |-> v] : v \in {Nothing, Some(NestOverride)}}

InitNest ==
    /\ cls = [r \in DBs |-> IF r = "inner" THEN "EquilibriumDB" ELSE "DB"]
    /\ InitHeap

NRegister ==
    \E no \in NestNamed, tags \in NestTagLists :
        Register("inner", no[1], no[2], tags, NoKw, 0, FALSE)

NNest ==
    \E tags \in NestTagLists :
        Register("outer", "sub", "inner", tags, NoKw, 0, FALSE)

NRegisterOuter ==
    \E tags \in NestTagLists :
        Register("outer", "c", "p3", tags, NoKw, 0, FALSE)

NQuery ==
    \E i \in NestIncludes, sub \in NestSubqueries :
        QueryCall("outer", QueryArgs(Query(i, <<>>, <<>>, sub, Nothing)))

NQueryTags ==
    \E sub \in NestSubqueries :
        QueryCall("outer", TagArgs(<<Tag("+", "t")>>, sub, Nothing))

NQueryProxy ==
    \E i \in NestIncludes :
        QueryCall("proxy", QueryArgs(Query(i, <<>>, <<>>, NoSubquery, Nothing)))

NQueryProxyTags ==
    \E tags \in SeqsUpTo(TagArguments({"t"}), 1) :
        QueryCall("proxy", TagArgs(tags, NoSubquery, Nothing))

NextNest ==
    \/ NRegister
    \/ NNest
    \/ NRegisterOuter
    \/ NQuery
    \/ NQueryTags
    \/ NQueryProxy
    \/ NQueryProxyTags

SpecNest == InitNest /\ [][NextNest]_vars

-----------------------------------------------------------------------------
(* Nested registries *)

\* the Query of the last call of query
LastQuery ==
    IF last.args.query # Nothing THEN last.args.query[1]
    ELSE Query(Prefixed(last.args.tags, "+"), Prefixed(last.args.tags, "&"),
               Prefixed(last.args.tags, "-"), last.args.kwtags, Nothing)

\* what the include, require and exclude tags of q select in registry r
Selected(r, q) ==
    exclude_loop(db[r],
        require_loop(db[r], include_loop(db[r], <<>>, q.include), q.require),
        q.exclude)

\* the elements of a result that stand for object o
Standing(opts, o) == {i \in 1..Len(opts) : opts[i].id = o}

\* C12: when the tags of a query select a nested registry r whose name has
\* no entry in the subquery mapping, or a Query as entry, the result holds
\* no handle of r and holds once the result of r.query, of the enclosing
\* query in the first case and of the entry in the second, named as r is.
C12_NestedRegistryExpanded ==
    (last.op = "query" /\ last.res = "ok"
     /\ last.self \in DBs /\ cls[last.self] = "DB")
    => LET q == LastQuery
           opts == last.out[1].opts
       IN  \A r \in DBs \cup Proxies :
             (/\ Contains(Selected(last.self, q), r)
              /\ \/ ~Has(q.subquery, name[r])
                 \/ q.subquery[name[r]] # Nothing)
             => LET sq == IF Has(q.subquery, name[r])
                          THEN q.subquery[name[r]][1] ELSE q
                    o == query(Heap, r, QueryArgs(sq))
                IN  /\ ~Contains(opts, Plain(r))
                    /\ o.res = "ok"
                    /\ Contains(opts, Replacement(r,
                                  [o.out[1] EXCEPT !.name = name[r]]))
                    /\ Cardinality(Standing(opts, r)) = 1

C12_Witness ==
    /\ last.op = "query" /\ last.res = "ok" /\ last.self = "outer"
    /\ Contains(Selected("outer", LastQuery), "inner")
    /\ Has(LastQuery.subquery, name["inner"])
    /\ \E i \in 1..Len(last.out[1].opts) :
         LET e == last.out[1].opts[i] IN
         /\ e.id = "inner"
         /\ e.repl # Nothing
         /\ e.repl[1].name = "sub"
         /\ Len(e.repl[1].opts) = 1
         /\ Cardinality(names["inner"]) = 2

-----------------------------------------------------------------------------
(* Proxies *)

\* C13: a query through a ProxyDB ends as the same query on the wrapped
\* registry does, with the same result and the same effect on every object,
\* and the proxy has neither __db__ nor _names.
C13_ProxyForwards ==
    [][(last'.op = "query" /\ last'.self \in Proxies)
       => LET o == query(Heap, ProxyDB_db(last'.self), last'.args) IN
          /\ last'.res = o.res
          /\ last'.out = o.out
          /\ db' = o.h.db /\ names' = o.h.names /\ name' = o.h.name
          /\ position' = o.h.position /\ final' = o.h.final
          /\ last'.self \notin DOMAIN db' \cup DOMAIN names']_vars

C13_Witness ==
    /\ last.op = "query" /\ last.res = "ok" /\ last.self = "proxy"
    /\ last.args.query # Nothing
    /\ last.out[1].kind = "EquilibriumOptimizer"
    /\ Len(last.out[1].opts) = 2

-----------------------------------------------------------------------------
(* Determinism and order *)

\* C14: a query that returned, made again with the same arguments and with
\* nothing but itself in between, returns again, and returns an equal result.
C14_SameQuerySameResult ==
    (last.op = "query" /\ last.res = "ok")
    => LET o == query(Heap, last.self, last.args) IN
       o.res = "ok" /\ o.out = last.out

C14_Witness ==
    /\ last.op = "query" /\ last.res = "ok" /\ last.self = "outer"
    /\ Has(LastQuery.subquery, "sub")
    /\ Len(last.out[1].opts) = 2
    /\ \E i \in 1..2 :
         LET e == last.out[1].opts[i] IN
         e.repl # Nothing /\ Len(e.repl[1].opts) = 1
    /\ query(Heap, last.self, last.args).out = last.out

\* C15: the result of a query on a DB has the order of what its tags select:
\* a pass stands where it was selected, and the result of a nested registry
\* stands where the registry was selected.
C15_ExpansionKeepsPosition ==
    (last.op = "query" /\ last.res = "ok"
     /\ last.self \in DBs /\ cls[last.self] = "DB")
    => LET sel == Selected(last.self, LastQuery)
           opts == last.out[1].opts
       IN  /\ Len(opts) = Len(sel)
           /\ \A i \in 1..Len(sel) : opts[i].id = sel[i]

\* C16: no element of the result of a query is a registry: every nested
\* registry selected has been replaced by its own result.
C16_NoRegistryHandle ==
    (last.op = "query" /\ last.res = "ok")
    => \A i \in 1..Len(last.out[1].opts) :
          IsDB(last.out[1].opts[i].id) => last.out[1].opts[i].repl # Nothing

-----------------------------------------------------------------------------
(* Calls that fail *)

\* C17: in a SequenceDB every name of _names has a position in __position__,
\* and no query fails for a position that is missing.
C17_EveryNameHasPosition ==
    \A r \in DBs :
        cls[r] = "SequenceDB"
        => /\ names[r] \subseteq DOMAIN position[r]
           /\ (last.op = "query" /\ last.self = r) => last.res # KeyError

\* C18: a register or add_tags call that raises leaves every bucket of
\* __db__, the set _names and the name of every object as they were.
C18_FailedCallChangesNothing ==
    [][(last'.op \in {"register", "add_tags"} /\ last'.res # "ok")
       => /\ \A k \in DOMAIN db'[last'.self] :
               db'[last'.self][k] = GetItem(db[last'.self], k)
          /\ names' = names
          /\ name' = name]_vars

====
